---- MODULE Spec2Model ----
(***************************************************************************)
(* Census tract geocoding pipeline (index.ts, worker.ts and                *)
(* spatialIndex.ts): a streaming CSV reader cuts address rows into         *)
(* chunks, a Piscina pool matches each chunk against the tract index, and  *)
(* the result sink writes size-capped partitions plus an unmatched file.   *)
(*                                                                         *)
(* Coordinates are integers (degrees); NaN is a number outside every       *)
(* range, and every comparison with it is false, as in JavaScript.         *)
(***************************************************************************)
EXTENDS Integers, Sequences, FiniteSets, Bags, TLC

\* ---------------------------------------------------------------- bounds
MaxRows == 3          \* rows over all address files of one run
MaxFiles == 2         \* address files of one run
MaxChunkSize == 2     \* configured CHUNK_SIZE ranges over 1..MaxChunkSize
CpuCount == 3         \* os.cpus().length of the machine
MaxBadRows == 2       \* rows of the address file of a run over the malformed samples
MaxCpus == 32         \* os.cpus().length ranges over 1..MaxCpus where the pool is sized
MaxCoord == 7         \* points matched on their own lie on the grid -1..MaxCoord
MaxSources == 2       \* state directories of one load
MaxRecords == 2       \* shapefile records over all state directories of one load
MaxBatch == 3         \* addresses of a task handed to a worker on its own
MaxLiveRows == 2      \* rows over all address files of a run followed to its end
MaxLiveFiles == 2     \* address files of such a run
MaxStates == 3        \* state codes the downloader goes through

\* ------------------------------------------------------ program constants
ROWS_PER_FILE == 2

NaN == 999
null == "null"
undefined == "undefined"

isNaN(x) == x = NaN
Lt(a, b) == a # NaN /\ b # NaN /\ a < b
Gt(a, b) == Lt(b, a)
Min2(a, b) == IF a <= b THEN a ELSE b
Max2(a, b) == IF a >= b THEN a ELSE b

\* JavaScript truthiness of a string-or-null value
Truthy(v) == v # null /\ v # undefined /\ v # ""

\* parseFloat on the raw CSV fields that occur in the address files
RawFields == {"1", "5", "95", "-95", "200", "-200", "abc"}
parseFloat(s) ==
    CASE s = "1" -> 1
      [] s = "5" -> 5
      [] s = "95" -> 95
      [] s = "-95" -> -95
      [] s = "200" -> 200
      [] s = "-200" -> -200
      [] OTHER -> NaN

\* Math.max(1, (typeof require !== 'undefined' && cpus - 1) || 4): false and 0
\* are falsy and give way to the 4
WorkerThreads(requireDefined, cpus) ==
    Max2(1, IF requireDefined /\ cpus - 1 # 0 THEN cpus - 1 ELSE 4)
WORKER_THREADS == WorkerThreads(TRUE, CpuCount)

\* ------------------------------------------------------------ the index
\* Two adjacent square tracts sharing the edge x = 2; rings are <<lon, lat>>.
Square(x0, y0, x1, y1) ==
    << <<x0, y0>>, <<x0, y1>>, <<x1, y1>>, <<x1, y0>>, <<x0, y0>> >>

LoadedTracts ==
    << [geoid |-> "00000000001",
        geometry |-> [type |-> "Polygon", coordinates |-> << Square(0, 0, 2, 2) >>]],
       [geoid |-> "00000000002",
        geometry |-> [type |-> "Polygon", coordinates |-> << Square(2, 0, 4, 2) >>]] >>

RECURSIVE Flatten(_)
Flatten(ss) == IF ss = <<>> THEN <<>> ELSE Head(ss) \o Flatten(Tail(ss))

extractAllCoordinates(geometry) ==
    IF geometry.type = "Polygon" THEN Flatten(geometry.coordinates)
    ELSE IF geometry.type = "MultiPolygon"
         THEN Flatten([i \in 1..Len(geometry.coordinates) |-> Flatten(geometry.coordinates[i])])
         ELSE <<>>

RECURSIVE FoldBounds(_, _)
FoldBounds(coords, b) ==
    IF coords = <<>> THEN b
    ELSE FoldBounds(Tail(coords),
                    << Min2(b[1], Head(coords)[1]), Min2(b[2], Head(coords)[2]),
                       Max2(b[3], Head(coords)[1]), Max2(b[4], Head(coords)[2]) >>)

extractBounds(geometry) ==
    LET coords == extractAllCoordinates(geometry) IN
    IF Len(coords) = 0 THEN <<0, 0, 0, 0>>
    ELSE FoldBounds(coords, <<coords[1][1], coords[1][2], coords[1][1], coords[1][2]>>)

\* items[i] carries handle i - 1 in the source (0-based); here handle i.
BuildItems(tracts) ==
    [i \in 1..Len(tracts) |->
        LET b == extractBounds(tracts[i].geometry) IN
        [minX |-> b[1], minY |-> b[2], maxX |-> b[3], maxY |-> b[4], id |-> i]]

GlobalBBox(tracts) ==
    FoldBounds(Flatten([i \in 1..Len(tracts) |-> extractAllCoordinates(tracts[i].geometry)]),
               <<180, 90, -180, -90>>)

\* RBush load of up to maxEntries (9) items: fewer than minEntries (4) are
\* inserted one by one, the others become one node in one step; either way
\* the tree is a single leaf that holds the items in the order given
RBushLoad(items) == [leaf |-> TRUE, children |-> items]

\* what loadCensusTractShapefiles returns for the tracts it has kept
IndexOf(tracts) ==
    [index |-> RBushLoad(BuildItems(tracts)),
     tracts |-> tracts, items |-> BuildItems(tracts), bbox |-> GlobalBBox(tracts)]

spatialIndex == IndexOf(LoadedTracts)

\* Tract sets for matching single points. A shape gives each part of a tract
\* as rectangles <<x0, y0, x1, y1>>: its outer ring and its holes. A shape
\* without parts is a tract the loader has kept with a ring of no coordinates.
Shape(geoid, parts) == [geoid |-> geoid, parts |-> parts]
Part(outer, holes) == [outer |-> outer, holes |-> holes]
RingOf(r) == Square(r[1], r[2], r[3], r[4])
PartRings(part) == << RingOf(part.outer) >> \o [h \in 1..Len(part.holes) |-> RingOf(part.holes[h])]

TractOf(shape) ==
    [geoid |-> shape.geoid,
     geometry |-> IF Len(shape.parts) = 0
                  THEN [type |-> "Polygon", coordinates |-> << << >> >>]
                  ELSE IF Len(shape.parts) = 1
                  THEN [type |-> "Polygon", coordinates |-> PartRings(shape.parts[1])]
                  ELSE [type |-> "MultiPolygon",
                        coordinates |-> [i \in 1..Len(shape.parts) |-> PartRings(shape.parts[i])]]]

TractsOf(shapes) == [i \in 1..Len(shapes) |-> TractOf(shapes[i])]

\* two adjacent tracts; a tract with a hole and the tract that fills the hole;
\* two tracts that overlap; a tract drawn beyond latitude 90; a tract of two
\* parts and the tract in the gap between them; a tract without coordinates
\* before two tracts that meet in the origin; two tracts without coordinates
\* and two tracts that span the origin without touching it; a tract with a
\* hole that no tract fills
ShapeSets ==
    { << Shape("00000000001", << Part(<<0, 0, 2, 2>>, <<>>) >>),
         Shape("00000000002", << Part(<<2, 0, 4, 2>>, <<>>) >>) >>,
      << Shape("00000000003", << Part(<<0, 0, 6, 6>>, << <<2, 2, 4, 4>> >>) >>),
         Shape("00000000004", << Part(<<2, 2, 4, 4>>, <<>>) >>) >>,
      << Shape("00000000005", << Part(<<0, 0, 4, 4>>, <<>>) >>),
         Shape("00000000006", << Part(<<2, 2, 6, 6>>, <<>>) >>) >>,
      << Shape("00000000007", << Part(<<0, 88, 2, 92>>, <<>>) >>) >>,
      << Shape("00000000008", << Part(<<0, 0, 2, 2>>, <<>>), Part(<<4, 0, 6, 2>>, <<>>) >>),
         Shape("00000000009", << Part(<<2, 0, 4, 2>>, <<>>) >>) >>,
      << Shape("00000000003", << >>),
         Shape("00000000001", << Part(<<0, 0, 2, 2>>, <<>>) >>),
         Shape("00000000002", << Part(<<-2, 0, 0, 2>>, <<>>) >>) >>,
      << Shape("00000000003", << >>),
         Shape("00000000001", << Part(<<1, 1, 2, 2>>, <<>>) >>),
         Shape("00000000002", << Part(<<-2, -2, -1, -1>>, <<>>) >>),
         Shape("00000000004", << >>) >>,
      << Shape("00000000003", << Part(<<0, 0, 6, 6>>, << <<2, 2, 4, 4>> >>) >>) >> }

\* ---------------------------------------------------------- the matcher
\* turf inRing: even-odd crossing count; a point on the ring counts as inside
OnSegment(px, py, a, b) ==
    /\ py * (a[1] - b[1]) + a[2] * (b[1] - px) + b[2] * (px - a[1]) = 0
    /\ (a[1] - px) * (b[1] - px) <= 0
    /\ (a[2] - py) * (b[2] - py) <= 0

Crosses(px, py, a, b) ==
    /\ (a[2] > py) # (b[2] > py)
    /\ IF b[2] - a[2] > 0
       THEN (px - a[1]) * (b[2] - a[2]) < (b[1] - a[1]) * (py - a[2])
       ELSE (px - a[1]) * (b[2] - a[2]) > (b[1] - a[1]) * (py - a[2])

inRing(px, py, ring, ignoreBoundary) ==
    LET n == Len(ring) - 1
        edges == 1..n
    IN IF \E i \in edges : OnSegment(px, py, ring[i], ring[i + 1])
       THEN ~ignoreBoundary
       ELSE Cardinality({i \in edges : Crosses(px, py, ring[i], ring[i + 1])}) % 2 = 1

\* the polygon test without its holes
inOuterRing(px, py, rings) ==
    /\ Len(rings) > 0
    /\ inRing(px, py, rings[1], FALSE)

inPolygon(px, py, rings) ==
    /\ Len(rings) > 0
    /\ inRing(px, py, rings[1], FALSE)
    /\ \A h \in 2..Len(rings) : ~inRing(px, py, rings[h], TRUE)

booleanPointInPolygon(px, py, geometry) ==
    IF geometry.type = "Polygon" THEN inPolygon(px, py, geometry.coordinates)
    ELSE \E i \in 1..Len(geometry.coordinates) : inPolygon(px, py, geometry.coordinates[i])

\* turf reads the first coordinate pair of a ring before anything else: on a
\* ring without coordinates the test of that polygon throws. The parts of a
\* MultiPolygon are tested in order up to the first that holds the point.
ringThrows(rings) == Len(rings) > 0 /\ Len(rings[1]) = 0

testThrows(px, py, geometry) ==
    IF geometry.type = "Polygon" THEN ringThrows(geometry.coordinates)
    ELSE \E i \in 1..Len(geometry.coordinates) :
            /\ ringThrows(geometry.coordinates[i])
            /\ \A j \in 1..(i - 1) : ~inPolygon(px, py, geometry.coordinates[j])

\* a catch that ends the loop over the candidates
catchAndReturn(candidates) == << >>

\* the catch of the loop over the candidates: it warns, and the loop goes on
\* with the candidates after the one whose test has thrown
catchAndSkip(candidates) == Tail(candidates)

\* a search that leaves out the items with the point on the edge of their box
searchStrict(index, lon, lat) ==
    SelectSeq(index.children, LAMBDA it : it.minX < lon /\ lon < it.maxX /\ it.minY < lat /\ lat < it.maxY)

\* RBush search with a degenerate box: the items of the leaf whose box holds
\* the point, in the order of the leaf
search(index, lon, lat) ==
    SelectSeq(index.children, LAMBDA it : it.minX <= lon /\ lon <= it.maxX /\ it.minY <= lat /\ lat <= it.maxY)

RECURSIVE FirstContaining(_, _, _, _)
FirstContaining(candidates, tracts, lon, lat) ==
    IF candidates = <<>> THEN null
    ELSE IF Head(candidates).id \notin DOMAIN tracts THEN "TypeError"
    ELSE IF testThrows(lon, lat, tracts[Head(candidates).id].geometry)
         THEN FirstContaining(catchAndSkip(candidates), tracts, lon, lat)
    ELSE IF booleanPointInPolygon(lon, lat, tracts[Head(candidates).id].geometry)
         THEN tracts[Head(candidates).id].geoid
         ELSE FirstContaining(Tail(candidates), tracts, lon, lat)

\* the number of booleanPointInPolygon calls of the loop over the candidates
RECURSIVE TestsRun(_, _, _, _)
TestsRun(candidates, tracts, lon, lat) ==
    IF candidates = <<>> THEN 0
    ELSE IF Head(candidates).id \notin DOMAIN tracts THEN 0
    ELSE IF testThrows(lon, lat, tracts[Head(candidates).id].geometry)
         THEN 1 + TestsRun(catchAndSkip(candidates), tracts, lon, lat)
    ELSE IF booleanPointInPolygon(lon, lat, tracts[Head(candidates).id].geometry)
         THEN 1
         ELSE 1 + TestsRun(Tail(candidates), tracts, lon, lat)

\* the range test without lat > 90
OutOfRangeSouthOnly(lat, lon) == Lt(lat, -90) \/ Lt(lon, -180) \/ Gt(lon, 180)

OutOfRange(lat, lon) == Lt(lat, -90) \/ Gt(lat, 90) \/ Lt(lon, -180) \/ Gt(lon, 180)

\* the bounding box test without lon > bbox[2]
OutsideBBoxWestOnly(lat, lon, bbox) == Lt(lon, bbox[1]) \/ Lt(lat, bbox[2]) \/ Gt(lat, bbox[4])

OutsideBBox(lat, lon, bbox) ==
    Lt(lon, bbox[1]) \/ Gt(lon, bbox[3]) \/ Lt(lat, bbox[2]) \/ Gt(lat, bbox[4])

\* one call of findTractForPoint: what it returns, how often it calls
\* index.search and how often booleanPointInPolygon
findTractForPointRun(lat, lon, idx) ==
    IF OutOfRange(lat, lon) THEN [geoid |-> null, searches |-> 0, tests |-> 0]
    ELSE IF OutsideBBox(lat, lon, idx.bbox) THEN [geoid |-> null, searches |-> 0, tests |-> 0]
         ELSE LET candidates == search(idx.index, lon, lat)
              IN [geoid |-> FirstContaining(candidates, idx.tracts, lon, lat),
                  searches |-> 1,
                  tests |-> TestsRun(candidates, idx.tracts, lon, lat)]

findTractForPoint(lat, lon, idx) == findTractForPointRun(lat, lon, idx).geoid

\* ----------------------------------------------------------- the worker
processOne(addr, idx) ==
    LET lat == addr.latitude
        lon == addr.longitude
    IN IF isNaN(lat) \/ isNaN(lon)
       THEN [address_id |-> addr.address_id, census_tract_geoid |-> null, error |-> "invalid_coordinates"]
       ELSE LET geoid == findTractForPoint(lat, lon, idx) IN
            IF geoid = "TypeError"
            THEN [address_id |-> addr.address_id, census_tract_geoid |-> null, error |-> "TypeError"]
            ELSE [address_id |-> addr.address_id, census_tract_geoid |-> geoid, error |-> undefined]

\* the spatialIndex property of a task: the index without its RBush tree
\* (pool.run hands a structured clone of it to the worker)
IndexData(idx) == [items |-> idx.items, tracts |-> idx.tracts, bbox |-> idx.bbox]

Reverse(seq) == [i \in 1..Len(seq) |-> seq[Len(seq) + 1 - i]]

\* a rebuild that loads the items last to first
RebuildReversed(indexData) ==
    [index |-> RBushLoad(Reverse(indexData.items)),
     tracts |-> indexData.tracts, items |-> indexData.items, bbox |-> indexData.bbox]

\* the worker loads a new RBush with the items it was sent
Rebuild(indexData) ==
    [index |-> RBushLoad(indexData.items),
     tracts |-> indexData.tracts, items |-> indexData.items, bbox |-> indexData.bbox]

\* a loop over the addresses without its try: the exception of an address
\* ends the batch, and the results so far are all there is
processAddressesNoTry(addresses, indexData, loadError) ==
    LET results == [i \in 1..Len(addresses) |-> processOne(addresses[i], Rebuild(indexData))]
        thrown == { i \in 1..Len(addresses) : results[i].error = "TypeError" }
    IN IF loadError # null
       THEN [i \in 1..Len(addresses) |->
               [address_id |-> addresses[i].address_id, census_tract_geoid |-> null,
                error |-> "index_error: " \o loadError]]
       ELSE IF thrown = {} THEN results
            ELSE SubSeq(results, 1, (CHOOSE i \in thrown : \A j \in thrown : i <= j) - 1)

\* loadError is the message of the exception that new RBush or its load
\* throws in the worker, null when the rebuild succeeds
processAddresses(addresses, indexData, loadError) ==
    IF loadError # null
    THEN [i \in 1..Len(addresses) |->
            [address_id |-> addresses[i].address_id, census_tract_geoid |-> null,
             error |-> "index_error: " \o loadError]]
    ELSE [i \in 1..Len(addresses) |-> processOne(addresses[i], Rebuild(indexData))]

\* ----------------------------------------------------------- the loader
\* the characters of the identifier strings that occur in the shapefiles
Zeros(n) == [i \in 1..n |-> "0"]
Chars(s) ==
    CASE s = "00000000001" -> Zeros(10) \o << "1" >>
      [] s = "00000000002" -> Zeros(10) \o << "2" >>
      [] s = "00000000003" -> Zeros(10) \o << "3" >>
      [] s = "00000000004" -> Zeros(10) \o << "4" >>
      [] s = "0000000005" -> Zeros(9) \o << "5" >>
      [] s = "000000000006" -> Zeros(11) \o << "6" >>
      [] s = "0000000000X" -> Zeros(10) \o << "X" >>
      [] s = "00000000008\n" -> Zeros(10) \o << "8", "\n" >>
      [] s = "undefined" -> << "u", "n", "d", "e", "f", "i", "n", "e", "d" >>
      [] OTHER -> << >>

Digits == { "0", "1", "2", "3", "4", "5", "6", "7", "8", "9" }

\* the format test with \d+ for \d{11}
TestDigitsOnly(s) == Len(Chars(s)) > 0 /\ \A i \in 1..Len(Chars(s)) : Chars(s)[i] \in Digits

\* /^\d{11}$/.test(s)
TestGeoid(s) == Len(Chars(s)) = 11 /\ \A i \in 1..Len(Chars(s)) : Chars(s)[i] \in Digits

GEOID_FIELDS == { "GEOID", "GEOID20", "geoid" }

\* the field detection taking GEOID10 too
FindGeoidFieldTiger(properties) ==
    LET hits == SelectSeq(properties, LAMBDA kv : kv[1] \in GEOID_FIELDS \cup { "GEOID10" })
    IN IF hits = <<>> THEN null ELSE hits[1][1]

\* Object.keys(properties).find(...) || null; properties are <<key, value>> pairs
FindGeoidField(properties) ==
    LET hits == SelectSeq(properties, LAMBDA kv : kv[1] \in GEOID_FIELDS)
    IN IF hits = <<>> THEN null ELSE hits[1][1]

\* String(properties[field])
StringOfProperty(properties, field) ==
    LET hits == SelectSeq(properties, LAMBDA kv : kv[1] = field)
    IN IF hits = <<>> THEN "undefined" ELSE hits[1][2]

\* a feature whose geometry is null: extractAllCoordinates throws on it
NullGeometry == [type |-> "null", coordinates |-> <<>>]

\* the while loop over the features of one shapefile, up to its end, its
\* break or the exception that the catch of the file swallows
RECURSIVE readFeatures(_, _, _)
readFeatures(features, geoidField, tracts) ==
    IF features = <<>> THEN tracts
    ELSE LET f == Head(features)
             field == IF geoidField = null THEN FindGeoidField(f.properties) ELSE geoidField
         IN IF field = null THEN tracts
            ELSE LET geoid == StringOfProperty(f.properties, field) IN
                 IF ~TestGeoid(geoid) THEN readFeatures(Tail(features), field, tracts)
                 ELSE IF f.geometry = NullGeometry THEN tracts
                 ELSE readFeatures(Tail(features), field,
                                   Append(tracts, [geoid |-> geoid, geometry |-> f.geometry]))

\* the for loop over the state directories; a directory that cannot be listed
\* throws out of the loop
RECURSIVE readSources(_, _)
readSources(sources, tracts) ==
    IF sources = <<>> THEN [threw |-> FALSE, tracts |-> tracts]
    ELSE IF Head(sources).listing = "fails" THEN [threw |-> TRUE, tracts |-> tracts]
    ELSE readSources(Tail(sources), readFeatures(Head(sources).features, null, tracts))

\* the load without its test for an empty tract list
loadWithoutEmptyTest(sources) ==
    LET read == readSources(sources, <<>>) IN
    IF read.threw THEN [threw |-> TRUE, message |-> "Failed to load shapefiles"]
    ELSE [threw |-> FALSE, index |-> IndexOf(read.tracts)]

loadCensusTractShapefiles(sources) ==
    LET read == readSources(sources, <<>>) IN
    IF read.threw THEN [threw |-> TRUE, message |-> "Failed to load shapefiles"]
    ELSE IF Len(read.tracts) = 0 THEN [threw |-> TRUE, message |-> "No census tracts loaded"]
    ELSE [threw |-> FALSE, index |-> IndexOf(read.tracts)]

\* ------------------------------------------------------------ the inputs
\* shapefile records: two tracts; an identifier of 10 digits; no accepted
\* identifier field; a tract whose only ring is empty; a tract under GEOID20;
\* a null geometry; identifiers with a letter, of 12 digits, with a line end
Feature(key, value, geometry) ==
    [properties |-> << << "STATEFP", "00" >>, << key, value >> >>, geometry |-> geometry]
SquareGeometry(x0, y0, x1, y1) == [type |-> "Polygon", coordinates |-> << Square(x0, y0, x1, y1) >>]
EmptyRingGeometry == [type |-> "Polygon", coordinates |-> << << >> >>]

FeatureSamples ==
    << Feature("GEOID", "00000000001", SquareGeometry(0, 0, 2, 2)),
      Feature("GEOID", "00000000002", SquareGeometry(2, 0, 4, 2)),
      Feature("GEOID", "0000000005", SquareGeometry(0, 0, 2, 2)),
      Feature("GEOID10", "00000000001", SquareGeometry(0, 0, 2, 2)),
      Feature("GEOID", "00000000003", EmptyRingGeometry),
      Feature("GEOID20", "00000000004", SquareGeometry(4, 0, 6, 2)),
      Feature("GEOID", "00000000002", NullGeometry),
      Feature("GEOID", "0000000000X", SquareGeometry(0, 0, 2, 2)),
      Feature("GEOID", "000000000006", SquareGeometry(0, 0, 2, 2)),
      Feature("GEOID", "00000000008\n", SquareGeometry(0, 0, 2, 2)) >>

RECURSIVE SeqSum(_)
SeqSum(ns) == IF ns = <<>> THEN 0 ELSE Head(ns) + SeqSum(Tail(ns))

StateDir(listing, features) == [listing |-> listing, features |-> features]

\* the ways to lay n features out over k state directories, in order: for
\* each directory whether it can be listed and how many features it holds; an
\* empty directory may also be one that cannot be listed
RECURSIVE Layouts(_, _)
Layouts(n, k) ==
    IF k = 0 THEN IF n = 0 THEN { <<>> } ELSE { }
    ELSE UNION { { << [listing |-> listing, count |-> c] >> \o rest :
                     listing \in IF c = 0 THEN { "ok", "fails" } ELSE { "ok" },
                     rest \in Layouts(n - c, k - 1) } :
                 c \in 0..n }

\* the features before directory d of the layout
Before(layout, d) == IF d = 1 THEN 0 ELSE SeqSum([e \in 1..(d - 1) |-> layout[e].count])

StateDirs(features, layout) ==
    [d \in 1..Len(layout) |->
        StateDir(layout[d].listing,
                 SubSeq(features, Before(layout, d) + 1, Before(layout, d) + layout[d].count))]

\* the state directories of a load: which samples their records are, and how
\* the records are laid out
LoadInputs ==
    { input \in [samples : UNION { [1..n -> DOMAIN FeatureSamples] : n \in 0..MaxRecords },
                 layout : UNION { Layouts(n, k) : n \in 0..MaxRecords, k \in 0..MaxSources }] :
        Len(input.samples) = SeqSum([d \in DOMAIN input.layout |-> input.layout[d].count]) }

SourcesOf(input) ==
    StateDirs([i \in DOMAIN input.samples |-> FeatureSamples[input.samples[i]]], input.layout)

\* addresses matched against a freshly loaded index: in the first, second and
\* third tract, and at the origin
ProbeAddresses ==
    << [address_id |-> 1, latitude |-> 1, longitude |-> 1],
       [address_id |-> 2, latitude |-> 1, longitude |-> 3],
       [address_id |-> 3, latitude |-> 1, longitude |-> 5],
       [address_id |-> 4, latitude |-> 0, longitude |-> 0] >>

\* raw <<latitude, longitude>> fields: inside tract 1, outside the global
\* bounding box, out of the latitude range with an unparseable longitude
RowSamples == { <<"1", "1">>, <<"1", "5">>, <<"95", "abc">> }

Rows(kinds) ==
    [k \in 1..Len(kinds) |-> [address_id |-> k, latitude |-> kinds[k][1], longitude |-> kinds[k][2]]]

\* the ways to cut rows into k files, none of them empty unless rows is
RECURSIVE Splits(_, _)
Splits(rows, k) ==
    IF k = 1 THEN { <<rows>> }
    ELSE UNION { { <<SubSeq(rows, 1, c)>> \o s : s \in Splits(SubSeq(rows, c + 1, Len(rows)), k - 1) } :
                 c \in Min2(1, Len(rows))..(Len(rows) - (k - 1)) }

RowSeqs == { Rows(kinds) : kinds \in UNION { [1..n -> RowSamples] : n \in 0..MaxRows } }

\* no file at all, files without rows, or files with at least one row each
AddressFileSets ==
    { <<>> } \cup { [f \in 1..k |-> <<>>] : k \in 1..MaxFiles }
             \cup UNION { Splits(rows, k) : rows \in RowSeqs \ { <<>> }, k \in 1..MaxFiles }

\* the addresses of a worker's task: in tract 1, in tract 2, north of the
\* tracts, without a latitude, and east of the tracts
PointSamples == { <<1, 1>>, <<1, 3>>, <<3, 1>>, <<NaN, 1>>, <<1, 5>> }

Batch(points) ==
    [i \in 1..Len(points) |->
        [address_id |-> 10 * i + 1, latitude |-> points[i][1], longitude |-> points[i][2]]]

Batches == { Batch(points) : points \in UNION { [1..n -> PointSamples] : n \in 1..MaxBatch } }

\* the index data of a task as main sends it, and index data whose items and
\* box hold a third tract that the tracts do not
StaleIndexData ==
    [items |-> Append(spatialIndex.items, [minX |-> 4, minY |-> 0, maxX |-> 6, maxY |-> 2, id |-> 3]),
     tracts |-> spatialIndex.tracts,
     bbox |-> <<0, 0, 6, 2>>]

IndexDataSamples == { IndexData(spatialIndex), StaleIndexData }

\* the address files of the runs that are followed to their end
LiveFileSets ==
    { [f \in 1..k |-> <<>>] : k \in 1..MaxLiveFiles }
        \cup UNION { Splits(Rows(kinds), k) :
                        kinds \in UNION { [1..n -> RowSamples] : n \in 1..MaxLiveRows },
                        k \in 1..MaxLiveFiles }

\* one address file whose rows range over a valid point and every way of
\* being malformed: either field not a number, either field beyond its domain
MalformedSamples ==
    { <<"1", "1">>, <<"abc", "1">>, <<"1", "abc">>,
      <<"95", "1">>, <<"-95", "1">>, <<"1", "200">>, <<"1", "-200">> }

MalformedFileSets ==
    { << Rows(kinds) >> : kinds \in UNION { [1..n -> MalformedSamples] : n \in 1..MaxBadRows } }

\* ------------------------------------------------------------- the state
VARIABLES
    files,              \* the address files found by main, each the sequence of the CSV
                        \* records its parser delivers before it ends or fails
    CHUNK_SIZE,         \* the configured chunk size
    pc,                 \* main: "start", "processing", "exited"; "killed" by a signal
    exitCode,           \* argument of process.exit, -1 while running
    current,            \* index of the file main is awaiting
    totalAddresses,     \* main's sum of the resolved counts
    avail,              \* per file: the records its parser has parsed so far (one more
                        \* than there are: it has seen the end of the file as well)
    src,                \* per file: the closure of processAddressFile
    pool,               \* Piscina: submitted tasks not yet completed, in submission order
    settled,            \* the pool.run promises settled so far
    outputFile,         \* "null", "open" or "ended"
    outputRowCount,
    currentOutputPart,
    partitions,         \* data rows of tracts_part_NNN.csv, by part number
    unmatchedStream,    \* "none", "open" or "ended"
    unmatchedRows,      \* data rows of unmatched_addresses.csv
    stats,
    chunkLog,           \* chunks whose pool.run was rejected, as logged
    consumed,           \* the results writeResults has iterated over, in order
    opened,             \* the part numbers createWriteStream was called for, in order
    dispatched,         \* the chunks handed to pool.run, in order
    tractIndex,         \* main's spatialIndex: what the load returned, null before
    onDisk,             \* how many of the rows written to each stream have left its
                        \* buffer and reached the file
    call,               \* a function of the program called on its own: name and arguments
    ret                 \* what the call returned and did, once it has returned

vars == << files, CHUNK_SIZE, pc, exitCode, current, totalAddresses, avail, src, pool, settled,
           outputFile, outputRowCount, currentOutputPart, partitions,
           unmatchedStream, unmatchedRows, stats, chunkLog, consumed, opened,
           dispatched, tractIndex, onDisk, call, ret >>

pipelineVars == << files, CHUNK_SIZE, pc, exitCode, current, totalAddresses, avail, src,
                   pool, settled,
                   outputFile, outputRowCount, currentOutputPart, partitions,
                   unmatchedStream, unmatchedRows, stats, chunkLog, consumed, opened,
                   dispatched, tractIndex, onDisk >>

\* the mutable state as one record, threaded through the handlers
World ==
    [pc |-> pc, exitCode |-> exitCode, current |-> current, totalAddresses |-> totalAddresses,
     avail |-> avail, src |-> src, pool |-> pool, settled |-> settled, outputFile |-> outputFile, outputRowCount |-> outputRowCount,
     currentOutputPart |-> currentOutputPart, partitions |-> partitions,
     unmatchedStream |-> unmatchedStream, unmatchedRows |-> unmatchedRows, stats |-> stats,
     chunkLog |-> chunkLog, consumed |-> consumed, opened |-> opened,
     dispatched |-> dispatched, tractIndex |-> tractIndex, onDisk |-> onDisk]

Becomes(w) ==
    /\ pc' = w.pc
    /\ exitCode' = w.exitCode
    /\ current' = w.current
    /\ totalAddresses' = w.totalAddresses
    /\ avail' = w.avail
    /\ src' = w.src
    /\ pool' = w.pool
    /\ settled' = w.settled
    /\ outputFile' = w.outputFile
    /\ outputRowCount' = w.outputRowCount
    /\ currentOutputPart' = w.currentOutputPart
    /\ partitions' = w.partitions
    /\ unmatchedStream' = w.unmatchedStream
    /\ unmatchedRows' = w.unmatchedRows
    /\ stats' = w.stats
    /\ chunkLog' = w.chunkLog
    /\ consumed' = w.consumed
    /\ opened' = w.opened
    /\ dispatched' = w.dispatched
    /\ tractIndex' = w.tractIndex
    /\ onDisk' = w.onDisk
    /\ UNCHANGED << files, CHUNK_SIZE, call, ret >>

IdleSource == [status |-> "Idle", pos |-> 0, chunkBuffer |-> <<>>, processedCount |-> 0]

NoCall == [fn |-> "none"]
Pending == [done |-> FALSE]

InitOf(fileSets, calls, index) ==
    /\ call \in calls
    /\ ret = Pending
    /\ files \in fileSets
    /\ CHUNK_SIZE \in 1..MaxChunkSize
    /\ pc = "start"
    /\ exitCode = -1
    /\ current = 0
    /\ totalAddresses = 0
    /\ avail = [f \in 1..Len(files) |-> 0]
    /\ src = [f \in 1..Len(files) |-> IdleSource]
    /\ pool = <<>>
    /\ settled = 0
    /\ outputFile = "null"
    /\ outputRowCount = 0
    /\ currentOutputPart = 1
    /\ partitions = <<>>
    /\ unmatchedStream = "none"
    /\ unmatchedRows = <<>>
    /\ stats = [totalProcessed |-> 0, totalMatched |-> 0, totalUnmatched |-> 0, totalErrors |-> 0]
    /\ chunkLog = <<>>
    /\ consumed = <<>>
    /\ opened = <<>>
    /\ dispatched = <<>>
    /\ tractIndex = index
    /\ onDisk = [parts |-> <<>>, unmatched |-> 0]

Init == InitOf(AddressFileSets, { NoCall }, spatialIndex)

\* ------------------------------------------------------------- the sink
openNewOutputFile(w) ==
    LET p == w.currentOutputPart IN
    [w EXCEPT !.partitions = IF p <= Len(@) THEN [@ EXCEPT ![p] = <<>>] ELSE Append(@, <<>>),
              !.onDisk.parts = IF p <= Len(@) THEN [@ EXCEPT ![p] = 0] ELSE Append(@, 0),
              !.opened = Append(@, p),
              !.outputFile = "open",
              !.outputRowCount = 0]

\* the rotation without its currentOutputPart++
SamePart(p) == p

\* currentOutputPart++
NextPart(p) == p + 1

\* the rotation test with > for >=
NeedsRotationLate(w) == w.outputRowCount > ROWS_PER_FILE

NeedsRotation(w) == w.outputRowCount >= ROWS_PER_FILE

\* a matched row that is written and not counted
countNothing(n) == n

\* stats.totalMatched++
countMatched(n) == n + 1

writeOne(result, w0) ==
    LET w == IF NeedsRotation(w0)
             THEN openNewOutputFile([w0 EXCEPT !.currentOutputPart = NextPart(@)])
             ELSE w0
        routed ==
            IF Truthy(result.census_tract_geoid)
            THEN [w EXCEPT !.partitions[w.currentOutputPart] =
                               Append(@, <<result.address_id, result.census_tract_geoid>>),
                           !.stats.totalMatched = countMatched(@)]
            ELSE IF Truthy(result.error)
                 THEN [w EXCEPT !.stats.totalUnmatched = @ + 1,
                                !.unmatchedRows = Append(@, <<result.address_id, result.error>>)]
                 ELSE [w EXCEPT !.stats.totalUnmatched = @ + 1]
    IN [routed EXCEPT !.outputRowCount = @ + 1,
                      !.stats.totalProcessed = @ + 1,
                      !.consumed = Append(@, result)]

RECURSIVE writeLoop(_, _)
writeLoop(results, w) ==
    IF results = <<>> THEN w ELSE writeLoop(Tail(results), writeOne(Head(results), w))

writeResults(results, w) ==
    writeLoop(results, IF w.outputFile = "null" THEN openNewOutputFile(w) ELSE w)

\* ------------------------------------------------------------- main
\* the for loop of main after processAddressFile(f) settled: the next file,
\* or the cleanup and process.exit(0)
mainContinue(f, w) ==
    IF f < Len(files)
    THEN [w EXCEPT !.current = f + 1, !.src[f + 1].status = "Streaming"]
    ELSE [w EXCEPT !.outputFile = IF @ = "null" THEN @ ELSE "ended",
                   !.unmatchedStream = "ended",
                   !.pc = "exited",
                   !.exitCode = 0]

resolve(f, w) ==
    IF w.src[f].status \in {"Done", "Failed"} THEN w
    ELSE mainContinue(f, [w EXCEPT !.src[f].status = "Done",
                                   !.totalAddresses = @ + w.src[f].processedCount])

\* --------------------------------------------------------- the dispatcher
\* the validation without its range tests
NaNOnly(lat, lon) == isNaN(lat) \/ isNaN(lon)

InvalidCoordinates(lat, lon) ==
    isNaN(lat) \/ isNaN(lon) \/ Lt(lat, -90) \/ Gt(lat, 90) \/ Lt(lon, -180) \/ Gt(lon, 180)

\* a pool.run that moves the items to the worker and leaves main without them
SubmitMoving(f, addresses, from, w) ==
    [w EXCEPT !.pool = Append(@, [file |-> f, addresses |-> addresses, from |-> from,
                                  spatialIndex |-> IndexData(w.tractIndex)]),
              !.dispatched = Append(@, [file |-> f, addresses |-> addresses]),
              !.tractIndex.items = << >>]

\* pool.run: the task holds a structured clone of the addresses and of the
\* items, the tracts and the box of main's index
Submit(f, addresses, from, w) ==
    [w EXCEPT !.pool = Append(@, [file |-> f, addresses |-> addresses, from |-> from,
                                  spatialIndex |-> IndexData(w.tractIndex)]),
              !.dispatched = Append(@, [file |-> f, addresses |-> addresses])]

\* parser 'end': flush the rest of the buffer, then resolve
onEnd(f, w) ==
    IF Len(w.src[f].chunkBuffer) > 0
    THEN Submit(f, w.src[f].chunkBuffer, "end", [w EXCEPT !.src[f].status = "Draining"])
    ELSE resolve(f, w)

\* the chunk test with > for >=
ChunkFullLate(buffer) == Len(buffer) > CHUNK_SIZE

ChunkFull(buffer) == Len(buffer) >= CHUNK_SIZE

\* the while loop of the 'readable' handler, up to its next await or its return
RECURSIVE readLoop(_, _)
readLoop(f, w) ==
    LET p == w.src[f] IN
    IF p.status = "Failed" \/ p.pos >= Min2(w.avail[f], Len(files[f]))
    THEN \* parser.read() returned null; at end of stream this emits 'end', once
         IF p.status = "Streaming" /\ w.avail[f] > Len(files[f]) THEN onEnd(f, w) ELSE w
    ELSE LET record == files[f][p.pos + 1]
             lat == parseFloat(record.latitude)
             lon == parseFloat(record.longitude)
             w1 == [w EXCEPT !.src[f].pos = @ + 1]
         IN IF InvalidCoordinates(lat, lon)
            THEN readLoop(f, [w1 EXCEPT !.stats.totalErrors = @ + 1,
                                        !.unmatchedRows = Append(@, <<record.address_id, "invalid_coordinates">>)])
            ELSE LET buffer == Append(p.chunkBuffer,
                                      [address_id |-> record.address_id, latitude |-> lat, longitude |-> lon])
                 IN IF ChunkFull(buffer)
                    THEN Submit(f, buffer, "readable", [w1 EXCEPT !.src[f].chunkBuffer = <<>>])
                    ELSE readLoop(f, [w1 EXCEPT !.src[f].chunkBuffer = buffer])

\* what follows the await of pool.run in either handler
afterRun(task, w) ==
    IF task.from = "readable" THEN readLoop(task.file, w) ELSE resolve(task.file, w)

\* ------------------------------------------------------------ the actions
\* main up to the first await of processAddressFile
MainStart ==
    /\ pc = "start"
    /\ IF Len(files) = 0
       THEN Becomes([World EXCEPT !.unmatchedStream = "open", !.pc = "exited", !.exitCode = 1])
       ELSE Becomes([openNewOutputFile(World) EXCEPT !.unmatchedStream = "open",
                                                     !.pc = "processing",
                                                     !.current = 1,
                                                     !.src[1].status = "Streaming"])

\* the parser has parsed the records up to a (Len + 1: and seen the end of the
\* file) and emits 'readable'; the handler runs up to its first await
Readable(f, a) ==
    /\ pc = "processing"
    /\ src[f].status = "Streaming"
    /\ a > avail[f]
    /\ Becomes(readLoop(f, [World EXCEPT !.avail[f] = a]))

\* the parser finds malformed text after the last record and emits 'error':
\* the promise is rejected, main logs and goes on
ParserError(f) ==
    /\ pc = "processing"
    /\ src[f].status = "Streaming"
    /\ avail[f] = Len(files[f])
    /\ Becomes(mainContinue(f, [World EXCEPT !.src[f].status = "Failed"]))

Without(seq, i) == SubSeq(seq, 1, i - 1) \o SubSeq(seq, i + 1, Len(seq))

\* a worker returns the results of pool[i], matched on the index it rebuilds
\* from the items of the task; the awaiting handler goes on
ChunkDone(i) ==
    /\ pc = "processing"
    /\ i <= WORKER_THREADS
    /\ LET task == pool[i]
           results == processAddresses(task.addresses, task.spatialIndex, null)
           w1 == writeResults(results, [World EXCEPT !.pool = Without(@, i), !.settled = @ + 1])
           w2 == [w1 EXCEPT !.src[task.file].processedCount = @ + Len(task.addresses)]
       IN Becomes(afterRun(task, w2))

\* a handler that ends in its catch: the loop over parser.read() is not
\* taken up again and 'end' is not handled
ChunkFailedAndStopped(i) ==
    /\ pc = "processing"
    /\ i <= WORKER_THREADS
    /\ LET task == pool[i]
       IN Becomes([World EXCEPT !.pool = Without(@, i), !.settled = @ + 1,
                               !.chunkLog = Append(@, task.addresses)])

\* pool.run of pool[i] is rejected: the handler logs and goes on
ChunkFailed(i) ==
    /\ pc = "processing"
    /\ i <= WORKER_THREADS
    /\ LET task == pool[i]
           w1 == [World EXCEPT !.pool = Without(@, i), !.settled = @ + 1,
                               !.chunkLog = Append(@, task.addresses)]
       IN Becomes(afterRun(task, w1))

\* a stream's pending write completes: the next row of part p reaches the file
FlushPart(p) ==
    /\ pc \in {"start", "processing"}
    /\ onDisk.parts[p] < Len(partitions[p])
    /\ onDisk' = [onDisk EXCEPT !.parts[p] = @ + 1]
    /\ UNCHANGED << files, CHUNK_SIZE, pc, exitCode, current, totalAddresses, avail, src,
                    pool, settled, outputFile, outputRowCount, currentOutputPart, partitions,
                    unmatchedStream, unmatchedRows, stats, chunkLog, consumed, opened,
                    dispatched, tractIndex, call, ret >>

\* the same for unmatched_addresses.csv
FlushUnmatched ==
    /\ pc \in {"start", "processing"}
    /\ onDisk.unmatched < Len(unmatchedRows)
    /\ onDisk' = [onDisk EXCEPT !.unmatched = @ + 1]
    /\ UNCHANGED << files, CHUNK_SIZE, pc, exitCode, current, totalAddresses, avail, src,
                    pool, settled, outputFile, outputRowCount, currentOutputPart, partitions,
                    unmatchedStream, unmatchedRows, stats, chunkLog, consumed, opened,
                    dispatched, tractIndex, call, ret >>

\* SIGINT arrives; no listener is registered, the process ends at once
Interrupt ==
    /\ pc \in {"start", "processing"}
    /\ Becomes([World EXCEPT !.pc = "killed"])

Next ==
    \/ MainStart
    \/ \E f \in DOMAIN src : \E a \in 1..(Len(files[f]) + 1) : Readable(f, a)
    \/ \E f \in DOMAIN src : ParserError(f)
    \/ \E i \in DOMAIN pool : ChunkDone(i)
    \/ \E i \in DOMAIN pool : ChunkFailed(i)

Spec == Init /\ [][Next]_vars

\* The run on address files that parse to their end, with the scheduling of
\* Node: main runs on, a parser with records or its end to deliver emits
\* 'readable', and the pool settles the promise of every task it runs.
NextLive ==
    \/ MainStart
    \/ \E f \in DOMAIN src : \E a \in 1..(Len(files[f]) + 1) : Readable(f, a)
    \/ \E i \in DOMAIN pool : ChunkDone(i)
    \/ \E i \in DOMAIN pool : ChunkFailed(i)

\* the step of Readable(f, a) for some a, told by what it does to avail: the
\* parser of a file that main is streaming has parsed more
ReadableEvent(f) ==
    /\ f \in DOMAIN src
    /\ pc = "processing"
    /\ src[f].status = "Streaming"
    /\ \E a \in (avail[f] + 1)..(Len(files[f]) + 1) : avail' = [avail EXCEPT ![f] = a]

\* the step of ChunkDone(i) or ChunkFailed(i) for some i, told by what it
\* does to settled: a promise of pool.run is resolved or rejected
TaskSettled ==
    /\ pc = "processing"
    /\ pool # << >>
    /\ settled' = settled + 1

Fairness ==
    /\ WF_vars(MainStart)
    /\ \A f \in 1..MaxLiveFiles : WF_avail(ReadableEvent(f))
    /\ WF_settled(TaskSettled)

InitLive == InitOf(LiveFileSets, { NoCall }, spatialIndex)
SpecLive == InitLive /\ [][NextLive]_vars /\ Fairness

\* the pipeline on one address file with malformed rows
InitMalformed == InitOf(MalformedFileSets, { NoCall }, spatialIndex)
SpecMalformed == InitMalformed /\ [][Next]_vars

\* the module constant WORKER_THREADS evaluated on a machine of call.cpus CPUs
PoolSizeCalls ==
    { [fn |-> "WORKER_THREADS", requireDefined |-> r, cpus |-> n] : r \in BOOLEAN, n \in 1..MaxCpus }

EvalWorkerThreads ==
    /\ call.fn = "WORKER_THREADS"
    /\ ~ret.done
    /\ ret' = [done |-> TRUE, value |-> WorkerThreads(call.requireDefined, call.cpus)]
    /\ UNCHANGED << pipelineVars, call >>

InitPoolSize == InitOf({ <<>> }, PoolSizeCalls, null)
SpecPoolSize == InitPoolSize /\ [][EvalWorkerThreads]_vars

\* findTractForPoint called on its own, on the index of one of the tract
\* sets as the load has built it, and by a worker on the index it rebuilds
Lats == (-1..MaxCoord) \cup {-91, 89, 91, 93}
Lons == (-1..MaxCoord) \cup {-181, 181}

MatcherCalls ==
    { [fn |-> "findTractForPoint", lat |-> lat, lon |-> lon, shapes |-> shapes] :
        lat \in Lats, lon \in Lons, shapes \in ShapeSets }

CallFindTractForPoint ==
    /\ call.fn = "findTractForPoint"
    /\ ~ret.done
    /\ LET idx == IndexOf(TractsOf(call.shapes))
           run == findTractForPointRun(call.lat, call.lon, idx)
           address == [address_id |-> 1, latitude |-> call.lat, longitude |-> call.lon]
       IN ret' = [done |-> TRUE, geoid |-> run.geoid, searches |-> run.searches, tests |-> run.tests,
                  worker |-> processAddresses(<< address >>, IndexData(idx), null)[1]]
    /\ UNCHANGED << pipelineVars, call >>

InitMatcher == InitOf({ <<>> }, MatcherCalls, null)
SpecMatcher == InitMatcher /\ [][CallFindTractForPoint]_vars

\* the worker's processAddresses called on its own, on one task
WorkerCalls ==
    { [fn |-> "processAddresses", addresses |-> addresses, spatialIndex |-> indexData,
       loadError |-> loadError] :
        addresses \in Batches, indexData \in IndexDataSamples,
        loadError \in { null, "Invalid array length" } }

CallProcessAddresses ==
    /\ call.fn = "processAddresses"
    /\ ~ret.done
    /\ ret' = [done |-> TRUE,
               results |-> processAddresses(call.addresses, call.spatialIndex, call.loadError)]
    /\ UNCHANGED << pipelineVars, call >>

InitWorker == InitOf({ <<>> }, WorkerCalls, null)
SpecWorker == InitWorker /\ [][CallProcessAddresses]_vars

\* main up to the end of the load, on the state directories of the call: the
\* index, and what the worker and the sink make of the probe addresses on it
LoadCalls == { [fn |-> "loadCensusTractShapefiles", input |-> input] : input \in LoadInputs }

\* the state directories of the call
Sources == SourcesOf(call.input)

MainLoad ==
    /\ call.fn = "loadCensusTractShapefiles"
    /\ ~ret.done
    /\ pc = "start"
    /\ unmatchedStream' = "open"
    /\ LET loaded == loadCensusTractShapefiles(Sources) IN
       IF loaded.threw
       THEN /\ ret' = [done |-> TRUE, threw |-> TRUE, message |-> loaded.message,
                       tracts |-> <<>>, items |-> <<>>, bbox |-> <<>>,
                       results |-> <<>>, rows |-> <<>>]
            /\ pc' = "exited"
            /\ exitCode' = 1
            /\ UNCHANGED tractIndex
       ELSE LET results == processAddresses(ProbeAddresses, IndexData(loaded.index), null) IN
            /\ ret' = [done |-> TRUE, threw |-> FALSE, message |-> "",
                       tracts |-> loaded.index.tracts, items |-> loaded.index.items,
                       bbox |-> loaded.index.bbox,
                       results |-> results,
                       rows |-> Flatten(writeResults(results, World).partitions)]
            /\ tractIndex' = loaded.index
            /\ UNCHANGED << pc, exitCode >>
    /\ UNCHANGED << files, CHUNK_SIZE, current, totalAddresses, avail, src, pool, settled,
                    outputFile, outputRowCount, currentOutputPart, partitions,
                    unmatchedRows, stats, chunkLog, consumed, opened, dispatched, onDisk, call >>

InitLoad == InitOf({ <<>> }, LoadCalls, null)
SpecLoad == InitLoad /\ [][MainLoad]_vars

\* the pipeline together with the completion of stream writes and with signals
NextIO ==
    \/ Next
    \/ \E p \in DOMAIN partitions : FlushPart(p)
    \/ FlushUnmatched
    \/ Interrupt

SpecIO == Init /\ [][NextIO]_vars

TypeOK ==
    /\ pc \in {"start", "processing", "exited", "killed"}
    /\ outputFile \in {"null", "open", "ended"}
    /\ \A f \in DOMAIN src : src[f].status \in {"Idle", "Streaming", "Draining", "Done", "Failed"}

\* ------------------------------------------------------------ vocabulary
InFlight(f) == Cardinality({i \in DOMAIN pool : pool[i].file = f})

AllDone == \A f \in DOMAIN src : src[f].status = "Done"
RunComplete == pc = "exited" /\ exitCode = 0 /\ AllDone

\* the ids of the records the handlers have taken from the parsers
ReadIds == UNION { { files[f][k].address_id : k \in 1..src[f].pos } : f \in DOMAIN src }

PartitionRows == Flatten(partitions)
WrittenRows == PartitionRows \o unmatchedRows
CountId(rows, id) == Len(SelectSeq(rows, LAMBDA r : r[1] = id))

RECURSIVE SeqToBag(_)
SeqToBag(rows) ==
    IF rows = <<>> THEN EmptyBag ELSE SetToBag({Head(rows)}) (+) SeqToBag(Tail(rows))

PointsHeld ==
    LET Sum[i \in 0..Len(pool)] == IF i = 0 THEN 0 ELSE Sum[i - 1] + Len(pool[i].addresses)
        Buf[f \in 0..Len(src)] == IF f = 0 THEN 0 ELSE Buf[f - 1] + Len(src[f].chunkBuffer)
    IN Sum[Len(pool)] + Buf[Len(src)]

\* ---------------------------------------------------------------- claims

\* C1: exactly-once delivery. When every source is Done and the run has
\* reported completion (exit code 0), every row read from the sources occurs
\* exactly once over the output partitions and the unmatched/error file;
\* stated for the runs in which no pool.run was rejected and no chunk was
\* left in flight, where it fails all the same.
C1_ExactlyOnce ==
    (RunComplete /\ chunkLog = <<>> /\ pool = <<>>)
        => \A id \in ReadIds : CountId(WrittenRows, id) = 1

\* C2: backpressure. While a chunk of a source is in flight, a 'readable'
\* event of that source reads no further record, and at most one chunk of a
\* source is in flight at any time.
C2_Backpressure ==
    [][\A f \in DOMAIN src :
          /\ (InFlight(f) > 0 /\ avail'[f] # avail[f]) => src'[f].pos = src[f].pos
          /\ Cardinality({i \in DOMAIN pool' : pool'[i].file = f}) <= 1]_vars

\* C3: bounded memory. The chunks dispatched and not yet completed never
\* exceed the pool size, so the points held in the chunk buffers and in
\* flight never exceed CHUNK_SIZE * (pool size + 1).
C3_BoundedMemory ==
    /\ Len(pool) <= WORKER_THREADS
    /\ PointsHeld <= CHUNK_SIZE * (WORKER_THREADS + 1)

\* C4: a source is Done only when none of its chunks is in flight and its
\* buffer has been flushed; so no later source is started and the output is
\* not closed while a chunk of an earlier source is in flight.
C4_DoneAfterWrites ==
    /\ \A f \in DOMAIN src : src[f].status = "Done" => InFlight(f) = 0
    /\ (pc = "exited" /\ exitCode = 0 /\ AllDone) => pool = <<>>

\* C5: chunk dispatch failure. Every point of a chunk whose pool.run was
\* rejected has a row in the error file and is counted as errored.
C5_FailedChunkRecorded ==
    /\ \A c \in DOMAIN chunkLog : \A k \in DOMAIN chunkLog[c] :
           CountId(unmatchedRows, chunkLog[c][k].address_id) = 1
    /\ stats.totalErrors >= Len(Flatten(chunkLog))

\* C6: result routing. Every consumed result with a geoid has exactly one
\* <<id, geoid>> partition row and no error row; every consumed result
\* without a geoid has exactly one <<id, reason>> error row (no_match when
\* the worker gave no error) and no partition row.
C6_ResultRouting ==
    \A n \in DOMAIN consumed :
        LET r == consumed[n] IN
        IF Truthy(r.census_tract_geoid)
        THEN /\ Len(SelectSeq(PartitionRows, LAMBDA row : row = <<r.address_id, r.census_tract_geoid>>)) = 1
             /\ CountId(PartitionRows, r.address_id) = 1
             /\ CountId(unmatchedRows, r.address_id) = 0
        ELSE /\ Len(SelectSeq(unmatchedRows, LAMBDA row :
                        row = <<r.address_id, IF Truthy(r.error) THEN r.error ELSE "no_match">>)) = 1
             /\ CountId(unmatchedRows, r.address_id) = 1
             /\ CountId(PartitionRows, r.address_id) = 0

\* C7: counter identity. In every state (so after every batch and at the end
\* of the run) totalProcessed = totalMatched + totalUnmatched + totalErrors.
C7_CounterIdentity ==
    stats.totalProcessed = stats.totalMatched + stats.totalUnmatched + stats.totalErrors

\* the rows written by the run that hands every file to the pool as one chunk
\* and in which no pool.run is rejected and no index rebuild fails
ValidAddresses(file) ==
    LET parsed == [k \in DOMAIN file |->
                      [address_id |-> file[k].address_id,
                       latitude |-> parseFloat(file[k].latitude),
                       longitude |-> parseFloat(file[k].longitude)]]
    IN SelectSeq(parsed, LAMBDA a : ~InvalidCoordinates(a.latitude, a.longitude))

InvalidRows(file) ==
    LET marked == [k \in DOMAIN file |->
                      <<file[k].address_id,
                        IF InvalidCoordinates(parseFloat(file[k].latitude), parseFloat(file[k].longitude))
                        THEN "invalid_coordinates" ELSE "">>]
    IN SelectSeq(marked, LAMBDA row : row[2] # "")

OneChunkRows ==
    LET results == Flatten([f \in DOMAIN files |->
                               processAddresses(ValidAddresses(files[f]), IndexData(spatialIndex), null)])
        blank == [World EXCEPT !.outputFile = "null", !.outputRowCount = 0, !.currentOutputPart = 1,
                               !.partitions = <<>>, !.unmatchedRows = <<>>]
        w == writeResults(results, blank)
    IN Flatten(w.partitions) \o w.unmatchedRows
       \o Flatten([f \in DOMAIN files |-> InvalidRows(files[f])])

NoWorkerFault == chunkLog = <<>>

\* C8: chunk-size independence. A completed run without worker faults writes,
\* for every CHUNK_SIZE, the multiset of rows of the run that takes each
\* stream as one chunk.
C8_ChunkSizeIndependence ==
    (RunComplete /\ NoWorkerFault) => SeqToBag(WrittenRows) = SeqToBag(OneChunkRows)

\* C9: partition cap. No output partition ever holds more than ROWS_PER_FILE
\* data rows.
C9_PartitionCap ==
    \A p \in DOMAIN partitions : Len(partitions[p]) <= ROWS_PER_FILE

\* a partition was filled to the cap and the next one has been written to
C9_RotatedAtCap ==
    /\ Len(partitions) >= 2
    /\ Len(partitions[1]) = ROWS_PER_FILE
    /\ Len(partitions[2]) >= 1

\* C10: rotation only at the cap. Every output partition other than the last
\* one holds exactly ROWS_PER_FILE data rows; stated for the runs in which no
\* pool.run was rejected.
C10_FullBeforeRotation ==
    NoWorkerFault => \A p \in 1..(Len(partitions) - 1) : Len(partitions[p]) = ROWS_PER_FILE

\* C11: the partitions are opened with the suffixes 1, 2, 3, ... in this order,
\* so none is opened twice, and a step never changes the rows of a partition
\* that a rotation has closed (every part below the current one)
C11_PartitionNumbering ==
    [][/\ \A i \in DOMAIN opened' : opened'[i] = i
       /\ \A p \in DOMAIN partitions : p < currentOutputPart => partitions'[p] = partitions[p]]_vars

\* a second partition was opened by a rotation and has taken a row
C11_WroteAfterRotation ==
    opened = << 1, 2 >> /\ Len(partitions[1]) = ROWS_PER_FILE /\ Len(partitions[2]) = 1

\* C12: when the address files hold no data row, no tracts_part file is ever
\* created
C12_EmptyInputNoPartition ==
    (\A f \in DOMAIN files : files[f] = <<>>) => opened = <<>>

\* the chunks of file f in dispatch order
ChunksOf(f) ==
    LET mine == SelectSeq(dispatched, LAMBDA d : d.file = f)
    IN [k \in DOMAIN mine |-> mine[k].addresses]

AtEnd(f) == src[f].status \in {"Draining", "Done"}

\* C13: no dispatched chunk is empty or longer than CHUNK_SIZE; once a source
\* with n valid points has been read to its end, ceil(n / CHUNK_SIZE) chunks
\* have been dispatched for it, all but the last with CHUNK_SIZE points, the
\* last with the rest, and together they hold every valid point once, in order
C13_Chunking ==
    /\ \A d \in DOMAIN dispatched : Len(dispatched[d].addresses) \in 1..CHUNK_SIZE
    /\ \A f \in DOMAIN src :
          AtEnd(f) =>
              LET n == Len(ValidAddresses(files[f]))
                  c == CHUNK_SIZE
                  count == (n + c - 1) \div c
                  chunks == ChunksOf(f)
              IN /\ Len(chunks) = count
                 /\ \A k \in 1..(count - 1) : Len(chunks[k]) = c
                 /\ count > 0 => Len(chunks[count]) = n - c * (count - 1)
                 /\ Flatten(chunks) = ValidAddresses(files[f])

\* a source of three valid points has ended with a full chunk of two and a
\* last chunk of one
C13_FullThenShort ==
    \E f \in DOMAIN src :
        /\ AtEnd(f) /\ CHUNK_SIZE = 2 /\ Len(ValidAddresses(files[f])) = 3
        /\ Len(ChunksOf(f)) = 2 /\ Len(ChunksOf(f)[2]) = 1

AllFlushed ==
    /\ \A p \in DOMAIN partitions : onDisk.parts[p] = Len(partitions[p])
    /\ onDisk.unmatched = Len(unmatchedRows)

\* C14: when the process has reported completion and exited with code 0,
\* every row written to a partition or to the error channel has reached its
\* file and both streams are finished
C14_DrainBeforeExit ==
    (pc = "exited" /\ exitCode = 0) =>
        AllFlushed /\ outputFile = "ended" /\ unmatchedStream = "ended"

\* C15: when the process has been ended by an interrupt, the partition and the
\* error channel it had opened are closed and every row written to them has
\* reached its file
C15_InterruptFlushes ==
    pc = "killed" =>
        AllFlushed /\ outputFile # "open" /\ unmatchedStream # "open"

\* a row whose latitude or longitude is not a number or lies outside its domain
Malformed(record) ==
    LET lat == parseFloat(record.latitude)
        lon == parseFloat(record.longitude)
    IN lat = NaN \/ lon = NaN \/ lat < -90 \/ lat > 90 \/ lon < -180 \/ lon > 180

\* the ids of the points put into a chunk of file f: dispatched or still buffered
ChunkedIds(f) ==
    { a.address_id : a \in { Flatten(ChunksOf(f))[k] : k \in DOMAIN Flatten(ChunksOf(f)) } }
    \cup { src[f].chunkBuffer[k].address_id : k \in DOMAIN src[f].chunkBuffer }

\* C16: a row that was read and is malformed is in no chunk and has exactly
\* one row in the error channel, with the reason invalid_coordinates; the rows
\* read around it that are not malformed are in a chunk
C16_MalformedRows ==
    \A f \in DOMAIN src : \A k \in 1..src[f].pos :
        LET record == files[f][k] IN
        IF Malformed(record)
        THEN /\ record.address_id \notin ChunkedIds(f)
             /\ CountId(unmatchedRows, record.address_id) = 1
             /\ \E n \in DOMAIN unmatchedRows :
                    unmatchedRows[n] = << record.address_id, "invalid_coordinates" >>
        ELSE record.address_id \in ChunkedIds(f)

\* a row with a longitude beyond 180 was recorded and the valid row after it
\* was dispatched
C16_SkippedAndContinued ==
    /\ Len(files) = 1 /\ Len(files[1]) = 2
    /\ parseFloat(files[1][1].longitude) = 200
    /\ unmatchedRows = << << 1, "invalid_coordinates" >> >>
    /\ \E d \in DOMAIN dispatched : dispatched[d].addresses[1].address_id = 2

\* C17: on a machine of n >= 1 CPUs the pool has max(1, n - 1) workers, one
\* worker on a machine of one CPU (with require defined, as in a CommonJS
\* build)
C17_PoolSize ==
    (call.fn = "WORKER_THREADS" /\ call.requireDefined /\ ret.done) =>
        ret.value = IF call.cpus - 1 >= 1 THEN call.cpus - 1 ELSE 1

\* ----------------------------------------------- the matcher on its own
InOpenRect(x, y, r) == r[1] < x /\ x < r[3] /\ r[2] < y /\ y < r[4]
InClosedRect(x, y, r) == r[1] <= x /\ x <= r[3] /\ r[2] <= y /\ y <= r[4]

\* strictly inside the outer ring of a part of the shape and outside its holes
StrictlyInside(lon, lat, shape) ==
    \E i \in DOMAIN shape.parts :
        /\ InOpenRect(lon, lat, shape.parts[i].outer)
        /\ \A h \in DOMAIN shape.parts[i].holes : ~InClosedRect(lon, lat, shape.parts[i].holes[h])

\* in the shape, its boundary included
Contains(lon, lat, shape) ==
    \E i \in DOMAIN shape.parts :
        /\ InClosedRect(lon, lat, shape.parts[i].outer)
        /\ \A h \in DOMAIN shape.parts[i].holes : ~InOpenRect(lon, lat, shape.parts[i].holes[h])

InDomain(lat, lon) == -90 <= lat /\ lat <= 90 /\ -180 <= lon /\ lon <= 180

Returned == call.fn = "findTractForPoint" /\ ret.done

NoWorkDone == ret.geoid = null /\ ret.searches = 0 /\ ret.tests = 0

\* C19: for a latitude outside [-90, 90] or a longitude outside [-180, 180]
\* findTractForPoint returns no match, raises nothing, and neither queries
\* the index nor runs a containment test
C19_RangeRejection ==
    (Returned /\ ~InDomain(call.lat, call.lon)) => NoWorkDone

\* a point at latitude 91 inside the tract drawn beyond latitude 90 has been
\* rejected
C19_RejectedInsideTract ==
    /\ Returned /\ call.lat = 91
    /\ \E i \in DOMAIN call.shapes : StrictlyInside(call.lon, call.lat, call.shapes[i])
    /\ NoWorkDone

\* the test of shape i is reached and throws: the shape has no coordinates,
\* its box is the origin, and no shape before it contains the point
TestThrew(lon, lat, shapes, i) ==
    /\ shapes[i].parts = << >>
    /\ lon = 0 /\ lat = 0
    /\ \A j \in 1..(i - 1) : ~Contains(lon, lat, shapes[j])

\* the identifier of the first shape that contains the point, if any
FirstContainingShape(lon, lat, shapes) ==
    IF \E i \in DOMAIN shapes : Contains(lon, lat, shapes[i])
    THEN shapes[CHOOSE i \in DOMAIN shapes :
                    /\ Contains(lon, lat, shapes[i])
                    /\ \A j \in 1..(i - 1) : ~Contains(lon, lat, shapes[j])].geoid
    ELSE null

\* C22: when the containment test of a candidate throws, the candidate is
\* skipped and the remaining candidates are tested in index order: the first
\* of them that contains the point is returned, and when none does (every
\* candidate throws, or the others do not contain the point) the result is
\* no match and nothing is raised
C22_ThrowingCandidateSkipped ==
    (Returned /\ \E i \in DOMAIN call.shapes : TestThrew(call.lon, call.lat, call.shapes, i)) =>
        /\ ret.geoid = FirstContainingShape(call.lon, call.lat, call.shapes)
        /\ ret.geoid # "TypeError"

\* the test of the first candidate has thrown and the second candidate, which
\* contains the point, has been returned, ahead of the third, which contains
\* it as well
C22_ReturnedAfterThrow ==
    /\ Returned /\ Len(call.shapes) = 3
    /\ TestThrew(call.lon, call.lat, call.shapes, 1)
    /\ Contains(call.lon, call.lat, call.shapes[2]) /\ Contains(call.lon, call.lat, call.shapes[3])
    /\ ret.tests = 2 /\ ret.geoid = call.shapes[2].geoid

\* every candidate has thrown: no match
C22_AllCandidatesThrew ==
    /\ Returned /\ Len(call.shapes) = 4 /\ ret.tests = 2 /\ ret.geoid = null
    /\ TestThrew(call.lon, call.lat, call.shapes, 1) /\ TestThrew(call.lon, call.lat, call.shapes, 4)

\* the point lies on the boundary of both shapes
OnSharedBoundary(lon, lat, a, b) ==
    /\ Contains(lon, lat, a) /\ ~StrictlyInside(lon, lat, a)
    /\ Contains(lon, lat, b) /\ ~StrictlyInside(lon, lat, b)

\* C23: a point on an edge shared by two polygons resolves to one
\* identifier, which depends on the point and the loaded polygons only: the
\* index built by the load and the index a worker rebuilds from the
\* serialized items give the same identifier, that of the first loaded
\* polygon that contains the point
C23_SharedBoundaryDeterministic ==
    (/\ Returned /\ InDomain(call.lat, call.lon)
     /\ \E i, j \in DOMAIN call.shapes :
            i # j /\ OnSharedBoundary(call.lon, call.lat, call.shapes[i], call.shapes[j])) =>
        /\ ret.geoid = FirstContainingShape(call.lon, call.lat, call.shapes)
        /\ ret.worker = [address_id |-> 1, census_tract_geoid |-> ret.geoid, error |-> undefined]

\* the point (2, 1) on the edge shared by the two adjacent tracts has been
\* given to the first of them, by the index of the load and by the worker
C23_EdgePointResolved ==
    /\ Returned /\ call.lon = 2 /\ call.lat = 1
    /\ Len(call.shapes) = 2
    /\ OnSharedBoundary(call.lon, call.lat, call.shapes[1], call.shapes[2])
    /\ ret.geoid = "00000000001" /\ ret.worker.census_tract_geoid = "00000000001"

\* the outer rings of all parts of all shapes; they span the global bounding box
Outers(shapes) ==
    UNION { { shapes[i].parts[j].outer : j \in DOMAIN shapes[i].parts } : i \in DOMAIN shapes }

OutsideGlobalBBox(lon, lat, shapes) ==
    \/ \A r \in Outers(shapes) : lon < r[1]
    \/ \A r \in Outers(shapes) : lon > r[3]
    \/ \A r \in Outers(shapes) : lat < r[2]
    \/ \A r \in Outers(shapes) : lat > r[4]

\* C20: for a point outside the bounding box of all loaded polygons
\* findTractForPoint returns no match without an index query and without a
\* containment test
C20_BBoxShortCircuit ==
    (Returned /\ OutsideGlobalBBox(call.lon, call.lat, call.shapes)) => NoWorkDone

\* a point of the coordinate domain east of every tract has been rejected
C20_RejectedEastOfTracts ==
    /\ Returned /\ InDomain(call.lat, call.lon)
    /\ \A r \in Outers(call.shapes) : call.lon > r[3] /\ r[2] < call.lat /\ call.lat < r[4]
    /\ NoWorkDone

\* ------------------------------------------------- the loader on its own
Loaded == call.fn = "loadCensusTractShapefiles" /\ ret.done

\* the identifier strings of the shapefiles that are 11 ASCII digits
ElevenDigits == { "00000000001", "00000000002", "00000000003", "00000000004" }

\* C21: every tract of a loaded index has an identifier of exactly 11 ASCII
\* digits, and every identifier the worker returns or the sink writes to a
\* partition is the identifier of a loaded tract
C21_GeoidFormat ==
    Loaded =>
        LET loadedIds == { ret.tracts[i].geoid : i \in DOMAIN ret.tracts } IN
        /\ loadedIds \subseteq ElevenDigits
        /\ \A i \in DOMAIN ret.results :
              ret.results[i].census_tract_geoid = null \/ ret.results[i].census_tract_geoid \in loadedIds
        /\ \A i \in DOMAIN ret.rows : ret.rows[i][2] \in loadedIds

\* a record with an identifier of 10 digits came before a tract in its
\* shapefile, and the tract's identifier was returned and written
C21_SkippedShortLoadedNext ==
    /\ Loaded /\ Len(Sources) = 1 /\ Len(Sources[1].features) = 2
    /\ StringOfProperty(Sources[1].features[1].properties, "GEOID") = "0000000005"
    /\ Len(ret.tracts) = 1
    /\ ret.rows = << << 1, "00000000001" >>, << 4, "00000000001" >> >>

\* the state directory can be listed and its first record has none of the
\* accepted identifier fields
NoGeoidField(dir) ==
    /\ dir.listing = "ok" /\ dir.features # <<>>
    /\ \A k \in DOMAIN dir.features[1].properties :
          dir.features[1].properties[k][1] \notin { "GEOID", "GEOID20", "geoid" }

\* C24 as stated: the load fails when the first record of a source has no
\* identifier field
C24_NoFieldFails ==
    Loaded => ((\E d \in DOMAIN Sources : NoGeoidField(Sources[d])) => ret.threw)

\* C24 amended: such a source is skipped as a whole, the load gives what it
\* gives without that source, and so fails when no other source yields a tract
C24_NoFieldSkipsSource ==
    Loaded =>
        LET others == SelectSeq(Sources, LAMBDA dir : ~NoGeoidField(dir))
            without == loadCensusTractShapefiles(others)
        IN /\ ret.threw = without.threw
           /\ ~ret.threw => ret.tracts = without.index.tracts

\* a source without identifier field was skipped and the load succeeded with
\* the tract of the source after it
C24_SkippedSourceLoadedOther ==
    /\ Loaded /\ ~ret.threw /\ Len(Sources) = 2
    /\ NoGeoidField(Sources[1])
    /\ Sources[2].features = << Feature("GEOID", "00000000002", SquareGeometry(2, 0, 4, 2)) >>
    /\ Len(ret.tracts) = 1 /\ ret.tracts[1].geoid = "00000000002"

\* the tracts the loops over the directories and their records have kept
Kept == readSources(Sources, <<>>).tracts

\* feature j of the directory is to be kept although a record before it has
\* an identifier that is not 11 digits: the field is GEOID from the first
\* record on, and no null geometry up to j ends the loop
LaterValid(dir, j) ==
    /\ dir.listing = "ok"
    /\ \A k \in 1..j : dir.features[k].properties[2][1] = "GEOID"
    /\ \A k \in 1..j : dir.features[k].geometry # NullGeometry
    /\ \E k \in 1..(j - 1) : dir.features[k].properties[2][2] \notin ElevenDigits
    /\ dir.features[j].properties[2][2] \in ElevenDigits

Aborted ==
    /\ pc = "exited" /\ exitCode = 1
    /\ opened = <<>> /\ partitions = <<>> /\ dispatched = <<>> /\ consumed = <<>>

\* in the directories the loop gets to
SkipsInvalidIds ==
    \A d \in DOMAIN Sources : \A j \in DOMAIN Sources[d].features :
        (LaterValid(Sources[d], j) /\ \A e \in 1..d : Sources[e].listing = "ok") =>
            \E t \in DOMAIN Kept : Kept[t].geoid = Sources[d].features[j].properties[2][2]

C26_NoRingsDropped ==
    (Loaded /\ ~ret.threw) =>
        /\ \A t \in DOMAIN ret.tracts : ret.tracts[t].geometry # EmptyRingGeometry
        /\ Len(ret.items) = Len(SelectSeq(Kept, LAMBDA tract : tract.geometry # EmptyRingGeometry))

\* ------------------------------------------- the counters and the output
\* C28: in every reachable state the matched counter equals the number of
\* data rows written to all output partitions
C28_MatchedEqualsWritten == stats.totalMatched = Len(Flatten(partitions))

\* two matched rows have been written, one to each of two partitions, and a
\* row without a match has been counted apart
C28_MatchedOverTwoParts ==
    /\ stats.totalMatched = 2 /\ stats.totalUnmatched = 1
    /\ Len(partitions) = 2 /\ Len(partitions[2]) > 0
\* ------------------------------------------------- the worker on its own
Processed == call.fn = "processAddresses" /\ ret.done

\* the address lies in the box of the item that has no tract
HitsStaleItem(address) ==
    /\ call.spatialIndex = StaleIndexData
    /\ address.latitude # NaN /\ address.longitude # NaN
    /\ 4 <= address.longitude /\ address.longitude <= 6
    /\ 0 <= address.latitude /\ address.latitude <= 2

\* what the address gets when it is the only one of its task
Alone(address) == processAddresses(<< address >>, call.spatialIndex, null)[1]

\* C29: for a chunk of n addresses processAddresses returns n results, the
\* i-th with the address_id of the i-th address; when the rebuild of the
\* index fails they are all index_error results; otherwise an address whose
\* matching throws gets an error result and every other address the result it
\* gets on its own
C29_BatchContract ==
    Processed =>
        /\ Len(ret.results) = Len(call.addresses)
        /\ \A i \in DOMAIN ret.results :
              /\ ret.results[i].address_id = call.addresses[i].address_id
              /\ IF call.loadError # null
                 THEN /\ ret.results[i].census_tract_geoid = null
                      /\ ret.results[i].error = "index_error: " \o call.loadError
                 ELSE IF HitsStaleItem(call.addresses[i])
                      THEN /\ ret.results[i].census_tract_geoid = null
                           /\ Truthy(ret.results[i].error)
                      ELSE ret.results[i] = Alone(call.addresses[i])

\* the matching of the second of three addresses has thrown, and the first
\* and the third have their tracts
C29_ErrorForOneAddressOnly ==
    /\ Processed /\ call.loadError = null /\ Len(call.addresses) = 3
    /\ HitsStaleItem(call.addresses[2])
    /\ ret.results[2].error = "TypeError"
    /\ ret.results[1].census_tract_geoid = "00000000001"
    /\ ret.results[3].census_tract_geoid = "00000000002"

\* the rebuild has failed on a task of three addresses
C29_AllIndexError ==
    /\ Processed /\ call.loadError # null /\ Len(call.addresses) = 3
    /\ \A i \in 1..3 : ret.results[i].error = "index_error: Invalid array length"
\* ------------------------------------------------- the index in the run
\* C30: no step of the run (a chunk handed to the pool, a chunk matched by a
\* worker, its results written) changes the polygon set, the bounding-box
\* items or the global bounding box of the loaded index
C30_IndexReadOnly ==
    [][/\ tractIndex'.tracts = tractIndex.tracts
       /\ tractIndex'.items = tractIndex.items
       /\ tractIndex'.bbox = tractIndex.bbox]_vars

\* two chunks have been handed to the pool and matched, a row has got its
\* tract, and the index is as the load left it
C30_IndexAfterTwoChunks ==
    /\ Len(dispatched) = 2 /\ pool = << >> /\ stats.totalMatched > 0
    /\ tractIndex = IndexOf(LoadedTracts)
\* ------------------------------------------------------------- liveness
RowExists(k) == \E f \in DOMAIN files : \E j \in DOMAIN files[f] : files[f][j].address_id = k

\* row k is in a chunk handed to the pool, or recorded as invalid
Handled(k) ==
    \/ \E c \in DOMAIN dispatched : \E j \in DOMAIN dispatched[c].addresses :
            dispatched[c].addresses[j].address_id = k
    \/ \E u \in DOMAIN unmatchedRows : unmatchedRows[u] = <<k, "invalid_coordinates">>

SomeShapeContains(lon, lat, shapes) == \E i \in DOMAIN shapes : Contains(lon, lat, shapes[i])

\* C31: for every in-range point findTractForPoint returns no match if and
\* only if no loaded polygon contains the point: the global bounding-box
\* test and the candidate query lose no polygon that a scan over all loaded
\* polygons finds
C31_FilteringLossless ==
    (Returned /\ InDomain(call.lat, call.lon)) =>
        (ret.geoid = null <=> ~SomeShapeContains(call.lon, call.lat, call.shapes))

\* a point on the edge of one tract only has passed both filters and has got
\* the tract
C31_EdgePointMatched ==
    /\ Returned /\ InDomain(call.lat, call.lon)
    /\ Len(call.shapes) = 2 /\ call.lon = 0 /\ call.lat = 1
    /\ Contains(call.lon, call.lat, call.shapes[1]) /\ ~StrictlyInside(call.lon, call.lat, call.shapes[1])
    /\ ~Contains(call.lon, call.lat, call.shapes[2])
    /\ ret.searches = 1 /\ ret.tests = 1 /\ ret.geoid = call.shapes[1].geoid

\* a point in the hole that no tract fills has passed both filters, its one
\* candidate has been tested, and it has no match
C31_HolePointUnmatched ==
    /\ Returned /\ Len(call.shapes) = 1 /\ call.lon = 3 /\ call.lat = 3
    /\ ret.searches = 1 /\ ret.tests = 1 /\ ret.geoid = null
\* ------------------------------------------------- the index after a load
\* the coordinate pairs of all rings of a Polygon
PairsOf(geometry) ==
    UNION { { geometry.coordinates[r][c] : c \in DOMAIN geometry.coordinates[r] } :
            r \in DOMAIN geometry.coordinates }

\* the item is the bounding box of the pairs
BoxOf(item, pairs) ==
    /\ \A xy \in pairs : item.minX <= xy[1] /\ xy[1] <= item.maxX /\ item.minY <= xy[2] /\ xy[2] <= item.maxY
    /\ \E xy \in pairs : xy[1] = item.minX
    /\ \E xy \in pairs : xy[1] = item.maxX
    /\ \E xy \in pairs : xy[2] = item.minY
    /\ \E xy \in pairs : xy[2] = item.maxY

Within(item, bbox) ==
    bbox[1] <= item.minX /\ item.maxX <= bbox[3] /\ bbox[2] <= item.minY /\ item.maxY <= bbox[4]

\* C32: after a load the index has one item per loaded polygon, item i has
\* handle i and the bounding box of polygon i (of its coordinate pairs, where
\* it has any), and every item's box lies inside the global bounding box
C32_IndexConsistent ==
    (Loaded /\ ~ret.threw) =>
        /\ Len(ret.items) = Len(ret.tracts)
        /\ \A i \in DOMAIN ret.items :
              /\ ret.items[i].id = i
              /\ PairsOf(ret.tracts[i].geometry) # { } =>
                    BoxOf(ret.items[i], PairsOf(ret.tracts[i].geometry))
              /\ Within(ret.items[i], ret.bbox)

\* ------------------------------------------------ the shapefile downloader
\* STATE_FIPS_CODES, its first MaxStates codes
STATE_FIPS_CODES == SubSeq(<< "01", "02", "04", "05", "06", "08" >>, 1, MaxStates)

\* what the download of one state meets: the state directory before the run,
\* the event that ends the transfer, and the event that ends the extraction
StateEnvs ==
    { e \in [dir : { "absent", "shp", "incomplete" },
             download : { "finish", "404", "requestError", "fileError" },
             extract : { "close", "error" }] :
        /\ e.dir = "shp" => e.download = "finish" /\ e.extract = "close"
        /\ e.download # "finish" => e.extract = "close" }

DownloadCalls ==
    { [fn |-> "downloadStateShapefiles", env |-> env] : env \in [1..MaxStates -> StateEnvs] }

\* the promise of downloadFile: rejected on a 404 and on an error of the
\* request, resolved when the file stream finishes; an error of the file
\* stream has no listener and is thrown outside the promise
downloadFile(transfer) ==
    CASE transfer = "404" -> "rejected"
      [] transfer = "finish" -> "resolved"
      [] transfer = "requestError" -> "rejected"
      [] transfer = "fileError" -> "uncaught"

\* the promise of extractZip
extractZip(unzip) == IF unzip = "close" THEN "resolved" ELSE "rejected"

\* the locals of downloadStateShapefiles before the loop, with the state
\* directories on disk and the log of what was visited and downloaded
DownloadLocals(env) ==
    [done |-> FALSE, phase |-> "loop", next |-> 1,
     successCount |-> 0, failureCount |-> 0, failedStates |-> << >>,
     dirs |-> [s \in 1..MaxStates |-> env[s].dir],
     visited |-> << >>, downloads |-> << >>]

\* successCount++ and on to the next code
succeeded(l) == [l EXCEPT !.successCount = @ + 1, !.next = @ + 1, !.phase = "loop"]

\* the catch block of the loop body
catchFailure(l) ==
    [l EXCEPT !.failureCount = @ + 1,
              !.failedStates = Append(@, STATE_FIPS_CODES[l.next]),
              !.next = @ + 1,
              !.phase = "loop"]

DownloadStart ==
    /\ call.fn = "downloadStateShapefiles"
    /\ ret = Pending
    /\ ret' = DownloadLocals(call.env)
    /\ UNCHANGED << pipelineVars, call >>

\* the loop body up to the await of downloadFile
VisitState ==
    /\ call.fn = "downloadStateShapefiles"
    /\ ret # Pending
    /\ ret.phase = "loop"
    /\ ret.next <= Len(STATE_FIPS_CODES)
    /\ LET fips == STATE_FIPS_CODES[ret.next]
           seen == [ret EXCEPT !.visited = Append(@, fips)] IN
       ret' = IF ret.dirs[ret.next] = "shp"
              THEN succeeded(seen)
              ELSE [seen EXCEPT !.dirs[ret.next] = "absent",
                                !.downloads = Append(@, fips),
                                !.phase = "downloading"]
    /\ UNCHANGED << pipelineVars, call >>

\* the transfer ends
DownloadSettled ==
    /\ call.fn = "downloadStateShapefiles"
    /\ ret # Pending
    /\ ret.phase = "downloading"
    /\ LET promise == downloadFile(call.env[ret.next].download) IN
       ret' = CASE promise = "resolved" ->
                     [ret EXCEPT !.dirs[ret.next] = "incomplete", !.phase = "extracting"]
                [] promise = "rejected" -> catchFailure(ret)
                [] promise = "uncaught" -> [ret EXCEPT !.phase = "crashed"]
    /\ UNCHANGED << pipelineVars, call >>

\* the extraction ends
ExtractSettled ==
    /\ call.fn = "downloadStateShapefiles"
    /\ ret # Pending
    /\ ret.phase = "extracting"
    /\ ret' = IF extractZip(call.env[ret.next].extract) = "resolved"
              THEN succeeded([ret EXCEPT !.dirs[ret.next] = "shp"])
              ELSE catchFailure(ret)
    /\ UNCHANGED << pipelineVars, call >>

\* after the loop: the summary
DownloadSummary ==
    /\ call.fn = "downloadStateShapefiles"
    /\ ret # Pending
    /\ ret.phase = "loop"
    /\ ret.next > Len(STATE_FIPS_CODES)
    /\ ret' = [ret EXCEPT !.done = TRUE, !.phase = "finished"]
    /\ UNCHANGED << pipelineVars, call >>

NextDownload ==
    \/ DownloadStart
    \/ VisitState
    \/ DownloadSettled
    \/ ExtractSettled
    \/ DownloadSummary

InitDownload == InitOf({ <<>> }, DownloadCalls, null)
SpecDownload == InitDownload /\ [][NextDownload]_vars

Downloading == call.fn = "downloadStateShapefiles" /\ ret # Pending

\* the run is over: the summary was written or the process ended
RunOver == Downloading /\ ret.phase \in { "finished", "crashed" }

\* the download or the extraction of the state at position s fails
StateFailed(s) ==
    /\ call.env[s].dir # "shp"
    /\ call.env[s].download # "finish" \/ call.env[s].extract # "close"

\* C33: the downloader visits every state code once in list order; a failed
\* download or extraction of one state keeps no later state from being
\* attempted; a state whose directory holds a .shp file is skipped without a
\* download; at the end successCount + failureCount is the number of codes
\* and failedStates holds exactly the states that failed
C33_DownloaderContract ==
    Downloading =>
        /\ ret.visited = SubSeq(STATE_FIPS_CODES, 1, Len(ret.visited))
        /\ \A s \in DOMAIN STATE_FIPS_CODES :
              call.env[s].dir = "shp" =>
                  \A d \in DOMAIN ret.downloads : ret.downloads[d] # STATE_FIPS_CODES[s]
        /\ RunOver => ret.visited = STATE_FIPS_CODES
        /\ ret.phase = "finished" =>
              /\ ret.successCount + ret.failureCount = Len(STATE_FIPS_CODES)
              /\ ret.failedStates =
                    SelectSeq(STATE_FIPS_CODES,
                              LAMBDA fips : \E s \in DOMAIN STATE_FIPS_CODES :
                                                STATE_FIPS_CODES[s] = fips /\ StateFailed(s))
====
